---- MODULE Spec2Model ----
(***************************************************************************)
(* FIVA Email Extractor: the record parser (SimplePDFExtractor), the email *)
(* correction engine (EmailProcessor) and the report builder               *)
(* (gerar_lista_emails) of src/extractor.py.                               *)
(*                                                                         *)
(* Text is modelled by TLA+ strings; Len, SubSeq and \o act on them        *)
(* character by character, so the regular expressions and the substring    *)
(* tests of the source are computed on the characters of each line.        *)
(* The alphabet is ASCII.                                                  *)
(***************************************************************************)
EXTENDS Integers, Sequences, FiniteSets

VARIABLES
    doc,              \* pages read so far, each the sequence of its lines
    status_atual,     \* extrair_emails_pdf: the carried section status
    dados,            \* extrair_emails_pdf: the records appended so far
    corrections_log,  \* EmailProcessor.corrections_log
    pc,               \* where the run is
    relatorio,        \* what gerar_lista_emails returned (NoReport before)
    erro,             \* the exception that ended the run ("" if none)
    entrada,          \* the argument of a direct correct_email call
    res1,             \* result of correct_email(entrada)
    res2              \* result of correct_email(res1.corrected)

vars == <<doc, status_atual, dados, corrections_log, pc, relatorio, erro,
          entrada, res1, res2>>

(***************************************************************************)
(* Characters and strings                                                  *)
(***************************************************************************)
Char(s, i) == IF i >= 1 /\ i <= Len(s) THEN SubSeq(s, i, i) ELSE ""

LowerChars == "abcdefghijklmnopqrstuvwxyz"
UpperChars == "ABCDEFGHIJKLMNOPQRSTUVWXYZ"

Minusculas == {Char(LowerChars, i) : i \in 1..Len(LowerChars)}
Maiusculas == {Char(UpperChars, i) : i \in 1..Len(UpperChars)}
Digitos == {"0", "1", "2", "3", "4", "5", "6", "7", "8", "9"}
Letras == Minusculas \cup Maiusculas

\* \w of the re module, on ASCII text
WordChars == Letras \cup Digitos \cup {"_"}
\* [\w\.-]
DomainChars == WordChars \cup {".", "-"}
\* str.strip() removes these from both ends
Whitespace == {" ", "\t"}

UpperChar(c) ==
    IF c \in Minusculas
    THEN Char(UpperChars, CHOOSE i \in 1..Len(LowerChars) : Char(LowerChars, i) = c)
    ELSE c

LowerChar(c) ==
    IF c \in Maiusculas
    THEN Char(LowerChars, CHOOSE i \in 1..Len(UpperChars) : Char(UpperChars, i) = c)
    ELSE c

RECURSIVE upper(_)
upper(s) == IF s = "" THEN "" ELSE UpperChar(Char(s, 1)) \o upper(SubSeq(s, 2, Len(s)))

RECURSIVE lower(_)
lower(s) == IF s = "" THEN "" ELSE LowerChar(Char(s, 1)) \o lower(SubSeq(s, 2, Len(s)))

\* Python's `kw in s`
Contains(s, kw) ==
    \E i \in 1..(Len(s) - Len(kw) + 1) : SubSeq(s, i, i + Len(kw) - 1) = kw

AllIn(s, a, b, class) == \A k \in a..b : Char(s, k) \in class

\* last index of the longest run of `class` characters starting at i (i-1: none)
RunEnd(s, i, class) ==
    CHOOSE j \in (i - 1)..Len(s) :
        /\ AllIn(s, i, j, class)
        /\ (j = Len(s) \/ Char(s, j + 1) \notin class)

\* first index of the longest run of `class` characters ending at j (j+1: none)
RunStart(s, j, class) ==
    CHOOSE i \in 1..(j + 1) :
        /\ AllIn(s, i, j, class)
        /\ (i = 1 \/ Char(s, i - 1) \notin class)

\* str.strip()
RECURSIVE lstrip(_)
lstrip(s) == IF s # "" /\ Char(s, 1) \in Whitespace THEN lstrip(SubSeq(s, 2, Len(s))) ELSE s

RECURSIVE rstrip(_)
rstrip(s) ==
    IF s # "" /\ Char(s, Len(s)) \in Whitespace THEN rstrip(SubSeq(s, 1, Len(s) - 1)) ELSE s

strip(s) == rstrip(lstrip(s))

\* str.replace(" ", "")
RECURSIVE RemoveSpaces(_)
RemoveSpaces(s) ==
    IF s = "" THEN ""
    ELSE (IF Char(s, 1) = " " THEN "" ELSE Char(s, 1)) \o RemoveSpaces(SubSeq(s, 2, Len(s)))

DigitVal(c) == CHOOSE v \in 0..9 : Char("0123456789", v + 1) = c

(***************************************************************************)
(* EmailProcessor                                                          *)
(***************************************************************************)
\* DOMINIOS_CONHECIDOS, in definition (= iteration) order
DOMINIOS_CONHECIDOS == <<
    [root |-> "gmail",   exts |-> <<".com", ".pt">>],
    [root |-> "hotmail", exts |-> <<".com", ".pt">>],
    [root |-> "outlook", exts |-> <<".com", ".pt">>],
    [root |-> "sapo",    exts |-> <<".pt">>],
    [root |-> "live",    exts |-> <<".com", ".pt">>],
    [root |-> "yahoo",   exts |-> <<".com", ".pt">>],
    [root |-> "icloud",  exts |-> <<".com">>],
    [root |-> "mail",    exts |-> <<".pt">>],
    [root |-> "iol",     exts |-> <<".pt">>],
    [root |-> "clix",    exts |-> <<".pt">>],
    [root |-> "netcabo", exts |-> <<".pt">> ] >>

\* an "@" followed by one or more [\w\.-] characters that end at index b
HasDomainUpTo(s, b) ==
    \E j \in 1..(b - 1) : Char(s, j) = "@" /\ AllIn(s, j + 1, b, DomainChars)

\* re.search(r"@[\w\.-]+\.co$", s, re.IGNORECASE)
MatchDotCo(s) ==
    LET n == Len(s) IN
    /\ n >= 5
    /\ lower(SubSeq(s, n - 2, n)) = ".co"
    /\ HasDomainUpTo(s, n - 3)

\* re.search(r"@([\w\.-]+)\.(c|)$", s, re.IGNORECASE): the length of the
\* matched suffix "\.(c|)" (2 for ".c", 1 for "."), 0 when there is no match
MatchDotC(s) ==
    LET n == Len(s) IN
    IF n >= 4 /\ lower(SubSeq(s, n - 1, n)) = ".c" /\ HasDomainUpTo(s, n - 2) THEN 2
    ELSE IF n >= 3 /\ Char(s, n) = "." /\ HasDomainUpTo(s, n - 1) THEN 1
    ELSE 0

\* match.group(1).lower() of that search
DomainPart(s) ==
    LET b == Len(s) - MatchDotC(s)
        j == CHOOSE j \in 1..(b - 1) : Char(s, j) = "@" /\ AllIn(s, j + 1, b, DomainChars)
    IN  lower(SubSeq(s, j + 1, b))

\* variant: the fallback extension misspelt
DefaultExtTypo == ".co"

\* the extension used when no known domain is found
DefaultExt == ".com"

\* variant: the root must equal domain_part
PrimaryExtExact(domain_part) ==
    LET hits == {i \in 1..Len(DOMINIOS_CONHECIDOS) :
                    DOMINIOS_CONHECIDOS[i].root = domain_part}
    IN  IF hits = {} THEN DefaultExt
        ELSE DOMINIOS_CONHECIDOS[CHOOSE i \in hits : \A k \in hits : i <= k].exts[1]

\* for known_domain, extensions in common_domains.items(): first root that is
\* a substring of domain_part gives extensions[0]; none gives ".com"
PrimaryExt(domain_part) ==
    LET hits == {i \in 1..Len(DOMINIOS_CONHECIDOS) :
                    Contains(domain_part, DOMINIOS_CONHECIDOS[i].root)}
    IN  IF hits = {} THEN DefaultExt
        ELSE DOMINIOS_CONHECIDOS[CHOOSE i \in hits : \A k \in hits : i <= k].exts[1]

\* re.sub(r"\.(c|)$", ext, s, flags=re.IGNORECASE) on a string MatchDotC accepts
SubSuffix(s, ext) == SubSeq(s, 1, Len(s) - MatchDotC(s)) \o ext

\* correct_email: [corrected, changed, log], log being corrections_log after
\* the call
correct_email(email, log) ==
    IF strip(email) = "" THEN [corrected |-> "", changed |-> FALSE, log |-> log]
    ELSE
    LET original == RemoveSpaces(strip(email))
        corrected ==
            IF MatchDotCo(original) THEN original \o "m"
            ELSE IF MatchDotC(original) > 0
                 THEN SubSuffix(original, PrimaryExt(DomainPart(original)))
                 ELSE original
        was_changed == MatchDotCo(original) \/ MatchDotC(original) > 0
    IN  [corrected |-> corrected,
         changed   |-> was_changed,
         log       |-> IF was_changed
                       THEN Append(log, [original |-> original, corrected |-> corrected])
                       ELSE log]

\* [A-Za-z0-9._%+-] and [A-Za-z0-9.-]
LocalChars == Letras \cup Digitos \cup {".", "_", "%", "+", "-"}
HostChars == Letras \cup Digitos \cup {".", "-"}

\* validate_email: re.match(r"^[A-Za-z0-9._%+-]+@[A-Za-z0-9.-]+\.[A-Za-z]{2,}$")
\* on the stripped, space-free string
validate_email(email) ==
    LET s == RemoveSpaces(strip(email))
        n == Len(s)
    IN  \E j \in 2..n : \E k \in (j + 2)..(n - 2) :
            /\ Char(s, j) = "@"
            /\ AllIn(s, 1, j - 1, LocalChars)
            /\ AllIn(s, j + 1, k - 1, HostChars)
            /\ Char(s, k) = "."
            /\ AllIn(s, k + 1, n, Letras)

(***************************************************************************)
(* SimplePDFExtractor.extrair_emails_pdf                                   *)
(***************************************************************************)
\* the section a line opens, or the carried one: "APTOS", then "SUSPENSOS",
\* then "ELIMINADOS" in linha.upper()
SectionAfter(linha, status) ==
    LET linha_upper == upper(linha) IN
    IF Contains(linha_upper, "APTOS") THEN "APTO"
    ELSE IF Contains(linha_upper, "SUSPENSOS") THEN "SUSPENSO"
    ELSE IF Contains(linha_upper, "ELIMINADOS") THEN "ELIMINADO"
    ELSE status

\* variant: the line's own keyword is not looked at
LineStatusSection(linha, status) == status

\* the record's status: "APTO", then "SUSPENSO", then "ELIMINADO" in
\* linha.upper(), or the carried status
LineStatus(linha, status) ==
    LET linha_upper == upper(linha) IN
    IF Contains(linha_upper, "APTO") THEN "APTO"
    ELSE IF Contains(linha_upper, "SUSPENSO") THEN "SUSPENSO"
    ELSE IF Contains(linha_upper, "ELIMINADO") THEN "ELIMINADO"
    ELSE status

\* S[PCL]\.[A-Z0-9]+\.\d+/\d+ matched at index i: the index of its last
\* character, 0 when it does not match there.  No class holds the character
\* that follows it, so each greedy run is the whole run.
IdEndAt(s, i) ==
    IF ~(Char(s, i) = "S" /\ Char(s, i + 1) \in {"P", "C", "L"} /\ Char(s, i + 2) = ".")
    THEN 0
    ELSE LET a == RunEnd(s, i + 3, Maiusculas \cup Digitos) IN
         IF ~(a >= i + 3 /\ Char(s, a + 1) = ".") THEN 0
         ELSE LET b == RunEnd(s, a + 2, Digitos) IN
              IF ~(b >= a + 2 /\ Char(s, b + 1) = "/") THEN 0
              ELSE LET c == RunEnd(s, b + 2, Digitos) IN
                   IF c >= b + 2 THEN c ELSE 0

\* re.search(r"(S[PCL]\.[A-Z0-9]+\.\d+/\d+)", linha): group(1), "" for None
SearchId(linha) ==
    LET starts == {i \in 1..Len(linha) : IdEndAt(linha, i) > 0} IN
    IF starts = {} THEN ""
    ELSE LET i == CHOOSE i \in starts : \A k \in starts : i <= k
         IN  SubSeq(linha, i, IdEndAt(linha, i))

\* [a-zA-Z0-9\.]
TailChars == Letras \cup Digitos \cup {"."}

\* the "\." of [\w\.\-]+@[\w\.\-]+\.[a-zA-Z0-9\.]{1,} for the "@" at index j:
\* the dots of the run after the "@" that leave a domain before them and a
\* tail character after them
EmailDots(s, j) ==
    {k \in (j + 2)..RunEnd(s, j + 1, DomainChars) :
        Char(s, k) = "." /\ Char(s, k + 1) \in TailChars}

\* re.search(r"[\w\.\-]+@[\w\.\-]+\.[a-zA-Z0-9\.]{1,}", linha): group(0), ""
\* for None.  Leftmost "@" that matches; the domain is greedy, so the last dot.
SearchEmail(linha) ==
    LET ats == {j \in 2..Len(linha) :
                   /\ Char(linha, j) = "@"
                   /\ Char(linha, j - 1) \in DomainChars
                   /\ EmailDots(linha, j) # {}} IN
    IF ats = {} THEN ""
    ELSE LET j == CHOOSE j \in ats : \A k \in ats : j <= k
             d == CHOOSE d \in EmailDots(linha, j) : \A k \in EmailDots(linha, j) : d >= k
         IN  SubSeq(linha, RunStart(linha, j - 1, DomainChars),
                    RunEnd(linha, d + 1, TailChars))

\* ano_2digitos -> ano_registo
Century(ano_2digitos) == IF ano_2digitos < 50 THEN 2000 + ano_2digitos ELSE 1900 + ano_2digitos

\* variant: the year is derived whatever the status
AnoRegistoAny(id_dador, status) ==
    LET n == Len(id_dador) IN
    IF Char(id_dador, n - 2) = "/" /\ Char(id_dador, n - 1) \in Digitos /\ Char(id_dador, n) \in Digitos
    THEN {Century(10 * DigitVal(Char(id_dador, n - 1)) + DigitVal(Char(id_dador, n)))}
    ELSE {}

\* ano_registo: for ELIMINADO, re.search(r'/(\d{2})$', id_dador) and the
\* century rule; {} is None
AnoRegisto(id_dador, status) ==
    LET n == Len(id_dador) IN
    IF status = "ELIMINADO" /\ Char(id_dador, n - 2) = "/"
       /\ Char(id_dador, n - 1) \in Digitos /\ Char(id_dador, n) \in Digitos
    THEN {Century(10 * DigitVal(Char(id_dador, n - 1)) + DigitVal(Char(id_dador, n)))}
    ELSE {}

\* the row appended for a line that holds an identifier ("Nome" is left out:
\* nothing reads it).  pag and lin record where the line stands in doc.
Registo(linha, status_secao, log, pag, lin) ==
    LET id_dador == SearchId(linha)
        status == LineStatus(linha, status_secao)
        email_original == SearchEmail(linha)
        c == correct_email(email_original, log)
    IN  [id_dador       |-> id_dador,
         email_original |-> email_original,
         email_corrigido |-> c.corrected,
         foi_alterado   |-> IF c.changed THEN "Sim" ELSE "Nao",
         status         |-> status,
         tem_email      |-> IF validate_email(c.corrected) THEN "Sim" ELSE "Nao",
         ano_registo    |-> AnoRegisto(id_dador, status),
         pag            |-> pag,
         lin            |-> lin]

(***************************************************************************)
(* gerar_lista_emails                                                      *)
(***************************************************************************)
Max(S) == CHOOSE x \in S : \A y \in S : x >= y

\* variant: every occurrence is kept
keep_all(s) == s

\* Series.unique(): first occurrences, in order
RECURSIVE unique(_)
unique(s) ==
    IF s = <<>> THEN <<>>
    ELSE LET r == unique(SubSeq(s, 1, Len(s) - 1))
             x == s[Len(s)]
         IN  IF \E i \in 1..Len(r) : r[i] = x THEN r ELSE Append(r, x)

RECURSIVE Column(_)
Column(rows) ==
    IF rows = <<>> THEN <<>>
    ELSE <<rows[1].email_corrigido>> \o Column(SubSeq(rows, 2, Len(rows)))

\* variant: a largest year of 2000 counts too
AnoCorteFrom2000(df, ano_sistema) ==
    LET anos == UNION {df[i].ano_registo : i \in 1..Len(df)}
        ano_atual == IF anos # {} /\ Max(anos) >= 2000 THEN Max(anos) ELSE ano_sistema
    IN  ano_atual - 3

\* ano_corte: the system year, or the largest 'Ano Registo' when it is above
\* 2000, minus 3
AnoCorte(df, ano_sistema) ==
    LET anos == UNION {df[i].ano_registo : i \in 1..Len(df)}
        ano_atual == IF anos # {} /\ Max(anos) > 2000 THEN Max(anos) ELSE ano_sistema
    IN  ano_atual - 3

\* variant: the cutoff year itself is filtered out
SelectedAfter(df, status, ano_corte) ==
    IF status = "ELIMINADO"
    THEN SelectSeq(df, LAMBDA r : /\ r.status = status
                                  /\ r.ano_registo # {}
                                  /\ \A a \in r.ano_registo : a > ano_corte
                                  /\ r.tem_email = "Sim")
    ELSE SelectSeq(df, LAMBDA r : r.status = status /\ r.tem_email = "Sim")

\* the rows behind one status section; a row without a year fails both
\* notna() and the comparison with ano_corte
Selected(df, status, ano_corte) ==
    IF status = "ELIMINADO"
    THEN SelectSeq(df, LAMBDA r : /\ r.status = status
                                  /\ r.ano_registo # {}
                                  /\ \A a \in r.ano_registo : a >= ano_corte
                                  /\ r.tem_email = "Sim")
    ELSE SelectSeq(df, LAMBDA r : r.status = status /\ r.tem_email = "Sim")

emails_status(df, status, ano_corte) == unique(Column(Selected(df, status, ano_corte)))

gerar_lista_emails(df, log, ano_sistema) ==
    LET ano_corte == AnoCorte(df, ano_sistema)
        emails_corrigidos == Len(SelectSeq(df, LAMBDA r : r.foi_alterado = "Sim"))
    IN  [gerado_em_ano         |-> ano_sistema,
         ano_corte             |-> ano_corte,
         total_emails_validos  |-> Len(SelectSeq(df, LAMBDA r : r.tem_email = "Sim")),
         emails_corrigidos     |-> emails_corrigidos,
         APTO                  |-> emails_status(df, "APTO", ano_corte),
         SUSPENSO              |-> emails_status(df, "SUSPENSO", ano_corte),
         ELIMINADO             |-> emails_status(df, "ELIMINADO", ano_corte),
         relatorio_correcoes   |-> emails_corrigidos > 0,
         correcoes             |-> IF emails_corrigidos > 0 THEN log ELSE <<>>]

(***************************************************************************)
(* Inputs                                                                  *)
(***************************************************************************)
\* page openings plus lines read in one run
MaxPassos == 4

\* the lines a page may hold
Linhas == {
    "DADORES APTOS",
    "Dadores Suspensos",
    "ELIMINADOS",
    "ELIMINADOS SP.A1.10/21 ANA a@gmail.co",
    "SC.B2.31/18 RUI r@sapo.pt",
    "SL.C3.7/17 EVA e@mail.c",
    "SP.D4.5/00 o@clix.pt",
    "SP.E5.9/2019 Eliminado z@sapo.p1",
    "ELIMINADOS SL.F6.2/99 SUSPENSO s@iol.pt",
    "APTOS SP.G7.1/20 a@gmail.com",
    "SC.H8.4/87 h@netcabo.c" }

\* dt.datetime.now().year
AnosSistema == {2025, 2026}

NoReport == [nenhum |-> TRUE]
NoResult == [nenhum |-> TRUE]
NoInput == [nenhum |-> TRUE]

\* pieces a domain is written with in a direct correct_email call
MaxPecas == 2

Pecas == {"gmail", "mail", "hot", "sapo", "x", "Live", ".", "-", "!"}

RECURSIVE Dominios(_)
Dominios(n) ==
    IF n = 0 THEN {""}
    ELSE Dominios(n - 1) \cup {d \o p : d \in Dominios(n - 1), p \in Pecas}

Sufixos == {".c", ".C", ".", ". c", ".co", ".CO", ". co", ".com", ".pt", ""}

\* what surrounds the address: nothing, or blanks that strip() removes
Molduras == {[pre |-> "", post |-> ""], [pre |-> " \t", post |-> " "]}

Entradas ==
    {[pre |-> m.pre, loc |-> "a", dom |-> d, suf |-> x, post |-> m.post] :
        m \in Molduras, d \in Dominios(MaxPecas), x \in Sufixos}

Email(e) == e.pre \o e.loc \o "@" \o e.dom \o e.suf \o e.post

RECURSIVE TotalLinhas(_)
TotalLinhas(d) == IF d = <<>> THEN 0 ELSE Len(d[1]) + TotalLinhas(Tail(d))

Passos == Len(doc) + TotalLinhas(doc)

(***************************************************************************)
(* processar_pdf_para_emails: one run over a document                      *)
(***************************************************************************)
\* EmailProcessor() and SimplePDFExtractor(email_processor): what a run
\* starts from
RunStartState ==
    /\ doc = <<>>
    /\ status_atual = "INDEFINIDO"
    /\ dados = <<>>
    /\ corrections_log = <<>>
    /\ pc = "extrair"
    /\ relatorio = NoReport
    /\ erro = ""

Init ==
    /\ RunStartState
    /\ entrada = NoInput
    /\ res1 = NoResult
    /\ res2 = NoResult

\* for pagina in pdf.pages: the next page is taken; a page left without lines
\* is one whose extract_text() is empty
\* variant: each page starts without a section
StatusAtPageReset(status) == "INDEFINIDO"

\* status_atual is set before the loop over the pages, not in it
StatusAtPage(status) == status

AbrirPagina ==
    /\ pc = "extrair"
    /\ Passos < MaxPassos
    /\ doc' = Append(doc, <<>>)
    /\ status_atual' = StatusAtPage(status_atual)
    /\ UNCHANGED <<dados, corrections_log, pc, relatorio, erro, entrada, res1, res2>>

\* for linha in linhas: one line of the current page
ProcessarLinha(linha) ==
    /\ pc = "extrair"
    /\ doc # <<>>
    /\ Passos < MaxPassos
    /\ LET pag == Len(doc)
           lin == Len(doc[pag]) + 1
           secao == SectionAfter(linha, status_atual)
       IN  /\ doc' = [doc EXCEPT ![pag] = Append(@, linha)]
           /\ status_atual' = secao
           /\ IF SearchId(linha) = ""
              THEN UNCHANGED <<dados, corrections_log>>
              ELSE LET r == Registo(linha, secao, corrections_log, pag, lin) IN
                   /\ dados' = Append(dados, r)
                   /\ corrections_log' =
                          correct_email(r.email_original, corrections_log).log
    /\ UNCHANGED <<pc, relatorio, erro, entrada, res1, res2>>

\* pdfplumber raises: "Erro ao processar PDF"
ErroExtracao ==
    /\ pc = "extrair"
    /\ pc' = "excecao"
    /\ erro' = "Erro ao processar PDF"
    /\ UNCHANGED <<doc, status_atual, dados, corrections_log, relatorio, entrada, res1, res2>>

\* variant: an empty table is not looked for
EmptyProceeds(df) == FALSE

\* df.empty
Empty(df) == df = <<>>

\* the last page is done and df.empty: "Nenhum dado extraido do PDF"

ConcluirVazio ==
    /\ pc = "extrair"
    /\ Empty(dados)
    /\ pc' = "excecao"
    /\ erro' = "Nenhum dado extraido do PDF"
    /\ UNCHANGED <<doc, status_atual, dados, corrections_log, relatorio, entrada, res1, res2>>

\* the last page is done: gerar_lista_emails(df, email_processor) is returned
ConcluirRelatorio(ano_sistema) ==
    /\ pc = "extrair"
    /\ ~Empty(dados)
    /\ relatorio' = gerar_lista_emails(dados, corrections_log, ano_sistema)
    /\ pc' = "retornou"
    /\ UNCHANGED <<doc, status_atual, dados, corrections_log, erro, entrada, res1, res2>>

\* variant: one log for the whole process
LogKept(log) == log

\* EmailProcessor.__init__: corrections_log = []
NewLog(log) == <<>>

\* processar_pdf_para_emails is called again: a new EmailProcessor

NovaExecucao ==
    /\ pc \in {"retornou", "excecao"}
    /\ doc' = <<>>
    /\ status_atual' = "INDEFINIDO"
    /\ dados' = <<>>
    /\ corrections_log' = NewLog(corrections_log)
    /\ pc' = "extrair"
    /\ relatorio' = NoReport
    /\ erro' = ""
    /\ UNCHANGED <<entrada, res1, res2>>

Next ==
    \/ AbrirPagina
    \/ \E linha \in Linhas : ProcessarLinha(linha)
    \/ ErroExtracao
    \/ ConcluirVazio
    \/ \E ano \in AnosSistema : ConcluirRelatorio(ano)
    \/ NovaExecucao

Spec == Init /\ [][Next]_vars

(***************************************************************************)
(* EmailProcessor.correct_email called directly, and again on its result   *)
(***************************************************************************)
InitCorrect ==
    /\ entrada \in Entradas
    /\ pc = "c0"
    /\ corrections_log = <<>>
    /\ res1 = NoResult
    /\ res2 = NoResult
    /\ doc = <<>>
    /\ status_atual = "INDEFINIDO"
    /\ dados = <<>>
    /\ relatorio = NoReport
    /\ erro = ""

Corrigir ==
    /\ pc = "c0"
    /\ LET c == correct_email(Email(entrada), corrections_log) IN
       /\ res1' = [corrected |-> c.corrected, changed |-> c.changed]
       /\ corrections_log' = c.log
    /\ pc' = "c1"
    /\ UNCHANGED <<doc, status_atual, dados, relatorio, erro, entrada, res2>>

CorrigirDeNovo ==
    /\ pc = "c1"
    /\ LET c == correct_email(res1.corrected, corrections_log) IN
       /\ res2' = [corrected |-> c.corrected, changed |-> c.changed]
       /\ corrections_log' = c.log
    /\ pc' = "c2"
    /\ UNCHANGED <<doc, status_atual, dados, relatorio, erro, entrada, res1>>

NextCorrect == Corrigir \/ CorrigirDeNovo

SpecCorrect == InitCorrect /\ [][NextCorrect]_vars

(***************************************************************************)
(* Properties                                                              *)
(***************************************************************************)
Keywords == {"APTO", "SUSPENSO", "ELIMINADO"}

\* the keywords a line holds, whatever the case of its letters
KeywordsIn(linha) == {k \in Keywords : Contains(upper(linha), k)}

IsHeader(linha) == \E k \in Keywords : Contains(upper(linha), k \o "S")

HeaderStatus(linha) ==
    CHOOSE k \in Keywords :
        /\ Contains(upper(linha), k \o "S")
        /\ k # "APTO" => ~Contains(upper(linha), "APTOS")
        /\ k = "ELIMINADO" => ~Contains(upper(linha), "SUSPENSOS")

\* the same, worked out once for each line a page may hold
KeywordsOfLine == [l \in Linhas |-> KeywordsIn(l)]
HeaderOfLine == [l \in Linhas |-> IF IsHeader(l) THEN HeaderStatus(l) ELSE "INDEFINIDO"]
HeaderLines == {l \in Linhas : IsHeader(l)}
IdentifierLines == {l \in Linhas : SearchId(l) # ""}

Positions == {pl \in (1..Len(doc)) \X (1..MaxPassos) : pl[2] <= Len(doc[pl[1]])}

Before(a, b) == a[1] < b[1] \/ (a[1] = b[1] /\ a[2] < b[2])

\* the status set by the last header line before position pl of the document
CarriedTo(pl) ==
    LET hs == {h \in Positions : Before(h, pl) /\ doc[h[1]][h[2]] \in HeaderLines} IN
    IF hs = {} THEN "INDEFINIDO"
    ELSE LET h == CHOOSE h \in hs : \A g \in hs : g = h \/ Before(g, h)
         IN  HeaderOfLine[doc[h[1]][h[2]]]

LineOf(r) == doc[r.pag][r.lin]

Records == {dados[k] : k \in 1..Len(dados)}

\* C1: a line with an identifier and no status keyword yields a record whose
\* status is the one of the most recent header line before it, on its page or
\* an earlier one (APTOS, then SUSPENSOS, then ELIMINADOS), and INDEFINIDO
\* when no header line precedes it.
C1_SectionCarryOver ==
    /\ \A pl \in Positions :
         (doc[pl[1]][pl[2]] \in IdentifierLines /\ KeywordsOfLine[doc[pl[1]][pl[2]]] = {})
         => \E r \in Records : r.pag = pl[1] /\ r.lin = pl[2]
    /\ \A r \in Records :
         KeywordsOfLine[LineOf(r)] = {} => r.status = CarriedTo(<<r.pag, r.lin>>)

C1_Witness ==
    \E r \in Records :
        /\ r.pag = 2
        /\ KeywordsOfLine[LineOf(r)] = {}
        /\ r.status = "SUSPENSO"
        /\ Len(doc[1]) = 1
        /\ doc[1][1] \in HeaderLines

\* C2: a record's status is the carried section status, unless its own line
\* holds a status keyword: then it is a status that line names, whatever the
\* section.
C2_LineLocalOverride ==
    \A r \in Records :
        IF KeywordsOfLine[LineOf(r)] = {}
        THEN r.status = CarriedTo(<<r.pag, r.lin>>)
        ELSE r.status \in KeywordsOfLine[LineOf(r)]

C2_Witness ==
    \E r \in Records :
        /\ KeywordsOfLine[LineOf(r)] = {"ELIMINADO"}
        /\ CarriedTo(<<r.pag, r.lin>>) = "APTO"
        /\ r.status = "ELIMINADO"

\* the digits after the "/" of an identifier
YearSuffix(id_dador) ==
    LET p == CHOOSE p \in 1..Len(id_dador) : Char(id_dador, p) = "/"
    IN  SubSeq(id_dador, p + 1, Len(id_dador))

TwoDigits(yy) == 10 * DigitVal(Char(yy, 1)) + DigitVal(Char(yy, 2))

\* C3: a record carries a registration year exactly when its status is
\* ELIMINADO and its identifier ends in "/" and two digits YY; the year is
\* 2000+YY for YY < 50 and 1900+YY otherwise.
C3_RegistrationYear ==
    \A r \in Records :
        LET yy == YearSuffix(r.id_dador) IN
        /\ (r.ano_registo # {}) <=> (r.status = "ELIMINADO" /\ Len(yy) = 2)
        /\ r.ano_registo # {} =>
              r.ano_registo = {IF TwoDigits(yy) < 50 THEN 2000 + TwoDigits(yy)
                                                     ELSE 1900 + TwoDigits(yy)}

C3_Witness ==
    /\ \E r \in Records : r.status = "ELIMINADO" /\ r.ano_registo = {2021}
    /\ \E r \in Records : r.status = "ELIMINADO" /\ r.ano_registo = {1987}
    /\ \E r \in Records : r.status = "ELIMINADO" /\ r.ano_registo = {}

Range(seq) == {seq[i] : i \in 1..Len(seq)}

\* the records a status section of the report is drawn from
Eligible(r, status) ==
    /\ r.status = status
    /\ r.tem_email = "Sim"
    /\ status = "ELIMINADO" =>
          \E a \in r.ano_registo : a >= relatorio.ano_corte

Section(status) ==
    IF status = "APTO" THEN relatorio.APTO
    ELSE IF status = "SUSPENSO" THEN relatorio.SUSPENSO
    ELSE relatorio.ELIMINADO

\* C4: the ELIMINADO section holds the corrected email of an ELIMINADO record
\* exactly when the record has a valid email and a registration year that is
\* present and >= the cutoff; the APTO and SUSPENSO sections hold the valid
\* emails of their records, whatever the year.
C4_RetentionFilter ==
    pc = "retornou" =>
        /\ Range(relatorio.ELIMINADO) =
              {r.email_corrigido : r \in {x \in Records :
                  /\ x.status = "ELIMINADO"
                  /\ x.tem_email = "Sim"
                  /\ \E a \in x.ano_registo : a >= relatorio.ano_corte}}
        /\ \A st \in {"APTO", "SUSPENSO"} :
              Range(Section(st)) =
                 {r.email_corrigido : r \in {x \in Records :
                     x.status = st /\ x.tem_email = "Sim"}}

C4_Witness ==
    /\ pc = "retornou"
    /\ \E r \in Records :
          /\ r.status = "ELIMINADO" /\ r.tem_email = "Sim"
          /\ r.ano_registo = {relatorio.ano_corte}
          /\ r.email_corrigido \in Range(relatorio.ELIMINADO)
    /\ \E r \in Records :
          /\ r.status = "ELIMINADO" /\ r.tem_email = "Sim"
          /\ r.ano_registo = {relatorio.ano_corte - 1}
          /\ r.email_corrigido \notin Range(relatorio.ELIMINADO)

EliminadoYears == UNION {r.ano_registo : r \in {x \in Records : x.status = "ELIMINADO"}}

\* C5: the cutoff is basis - 3, the basis being the largest registration year
\* of the ELIMINADO records when it is above 2000 and the system year
\* otherwise.
C5_Cutoff ==
    pc = "retornou" =>
        relatorio.ano_corte =
            (IF EliminadoYears # {} /\ Max(EliminadoYears) > 2000
             THEN Max(EliminadoYears)
             ELSE relatorio.gerado_em_ano) - 3

C5_Witness ==
    /\ pc = "retornou"
    /\ EliminadoYears # {}
    /\ Max(EliminadoYears) = 2000
    /\ relatorio.ano_corte = relatorio.gerado_em_ano - 3

FirstIndex(e, status) ==
    CHOOSE k \in 1..Len(dados) :
        /\ Eligible(dados[k], status) /\ dados[k].email_corrigido = e
        /\ \A j \in 1..(k - 1) :
              ~(Eligible(dados[j], status) /\ dados[j].email_corrigido = e)

\* C6: in each status section every address stands once, and the addresses
\* stand in the order of their first record.
C6_Deduplication ==
    pc = "retornou" =>
        \A st \in Keywords :
            LET lista == Section(st) IN
            /\ \A i, j \in 1..Len(lista) : i # j => lista[i] # lista[j]
            /\ \A r \in Records : Eligible(r, st) => r.email_corrigido \in Range(lista)
            /\ \A i, j \in 1..Len(lista) :
                  i < j => FirstIndex(lista[i], st) < FirstIndex(lista[j], st)

C6_Witness ==
    /\ pc = "retornou"
    /\ Len(dados) = 3
    /\ dados[1].email_corrigido = dados[3].email_corrigido
    /\ \A k \in 1..3 : dados[k].status = "APTO"
    /\ relatorio.APTO = <<dados[1].email_corrigido, dados[2].email_corrigido>>

\* the extension Rule B is to use for a domain
ExpectedExt(dom) ==
    LET T == DOMINIOS_CONHECIDOS
        m == {i \in 1..Len(T) : Contains(lower(dom), T[i].root)}
    IN  IF m = {} THEN ".com"
        ELSE T[CHOOSE i \in m : \A k \in m : i <= k].exts[1]

\* C7: an address that ends in ".c" or "." after its domain gets, in place of
\* that suffix, the first extension of the first table entry whose root is
\* inside the lower-cased domain, ".com" when there is none, and is reported
\* changed.
C7_RuleB ==
    (/\ pc \in {"c1", "c2"}
     /\ RemoveSpaces(entrada.suf) \in {".c", ".C", "."}
     /\ entrada.dom # ""
     /\ AllIn(entrada.dom, 1, Len(entrada.dom), DomainChars))
    => res1 = [corrected |-> entrada.loc \o "@" \o entrada.dom \o ExpectedExt(entrada.dom),
               changed   |-> TRUE]

C7_Witness ==
    /\ pc = "c1"
    /\ entrada.dom = "sapogmail"
    /\ entrada.suf = ".c"
    /\ res1 = [corrected |-> "a@sapogmail.com", changed |-> TRUE]

\* C8: correcting the result of a correction returns it as it is, unchanged,
\* and logs nothing.
C8_Idempotence ==
    pc = "c2" =>
        /\ res2 = [corrected |-> res1.corrected, changed |-> FALSE]
        /\ Len(corrections_log) = (IF res1.changed THEN 1 ELSE 0)

C8_Witness ==
    /\ pc = "c2"
    /\ res1.changed
    /\ res1.corrected = "a@x.com"
    /\ res2 = [corrected |-> "a@x.com", changed |-> FALSE]

RECURSIVE CorrectedPairs(_)
CorrectedPairs(rows) ==
    IF rows = <<>> THEN <<>>
    ELSE (IF rows[1].foi_alterado = "Sim"
          THEN <<[original |-> rows[1].email_original,
                  corrected |-> rows[1].email_corrigido]>>
          ELSE <<>>) \o CorrectedPairs(Tail(rows))

\* C9: in a run the correction log holds one {original, corrected} entry for
\* each record whose email was corrected, in record order, starting empty; the
\* report carries the trail, in log order, exactly when a record was
\* corrected.
C9_AuditTrail ==
    pc \in {"extrair", "retornou", "excecao"} =>
        /\ corrections_log = CorrectedPairs(dados)
        /\ pc = "retornou" =>
              /\ relatorio.relatorio_correcoes <=>
                    (\E r \in Records : r.foi_alterado = "Sim")
              /\ relatorio.relatorio_correcoes =>
                    relatorio.correcoes = CorrectedPairs(dados)

C9_Witness ==
    /\ pc = "retornou"
    /\ relatorio.relatorio_correcoes
    /\ relatorio.correcoes =
          <<[original |-> "e@mail.c", corrected |-> "e@mail.pt"],
            [original |-> "a@gmail.co", corrected |-> "a@gmail.com"]>>

NoIdentifier == \A pl \in Positions : doc[pl[1]][pl[2]] \notin IdentifierLines

\* C10: a run over a document no line of which holds an identifier ends in an
\* error and returns no report; a report is returned only when there is a
\* record.
C10_EmptyDocument ==
    /\ pc = "retornou" => (dados # <<>> /\ ~NoIdentifier)
    /\ (pc \in {"retornou", "excecao"} /\ NoIdentifier) =>
          (pc = "excecao" /\ erro # "" /\ relatorio = NoReport)

C10_Witness ==
    /\ pc = "excecao"
    /\ erro = "Nenhum dado extraido do PDF"
    /\ Len(doc) = 2
    /\ Len(doc[1]) = 1
    /\ Len(doc[2]) = 1
    /\ relatorio = NoReport

====
